---------------------------- MODULE Spec2Model ----------------------------
(***************************************************************************)
(* Model of the QLight ST56EL-ETN lamp client                              *)
(* (src/QLightLamp/lamps/qlight_st56el.py).                                *)
(*                                                                         *)
(* The client is modelled as one calling thread whose position is pc, the  *)
(* TCP peer (the lamp) as a second process that chooses a reply, hands it  *)
(* to the connection in segments and closes.  Byte strings are sequences   *)
(* of naturals; Python index i is TLA+ index i + 1.  Python's None is the  *)
(* string "None".  The interpreter runs with assertions enabled (the       *)
(* default).                                                               *)
(***************************************************************************)
EXTENDS Naturals, Sequences, FiniteSets

\* ------------------------------------------------------------------ bounds

\* Longest byte string handed to the Response constructor / sent by the peer.
MaxLen == 11

\* Most positions (other than the red lamp byte) in which a 10-byte reply
\* differs from the idle acknowledgement 41 00 rr 00 00 00 00 00 00 00.
MaxDeviations == 1

\* ------------------------------------------------------- protocol constants

CMD_READ == 82

CMD_WRITE == 87

CMD_LAMP_OFF == 0

CMD_LAMP_ON == 1

CMD_LAMP_BLINK == 2

CMD_SOUND_GROUPS == {0, 1, 2, 3, 4}

CMD_SOUNDS == {1, 2, 3, 4, 5}

RESP_ACK == 65

ARG_LAMP_OFF == "off"

ARG_LAMP_ON == "on"

ARG_LAMP_BLINK == "blink"

LAMP_ARG_CMD_MAP == [off |-> CMD_LAMP_OFF, on |-> CMD_LAMP_ON, blink |-> CMD_LAMP_BLINK]

\* recv(10): the most bytes one read returns.
RECV_SIZE == 10

\* ------------------------------------------------------------ input domains

\* Arguments a caller may pass as red_lamp_state: None, the empty string, the
\* three legal names and a name outside the map.
Args == {"None", "", "off", "on", "blink", "dim"}

\* Python truthiness of such an argument.
Truthy(s) == s \notin {"None", ""}

Take(s, n) == SubSeq(s, 1, IF n < Len(s) THEN n ELSE Len(s))

Drop(s, n) == SubSeq(s, (IF n < Len(s) THEN n ELSE Len(s)) + 1, Len(s))

IdleReply == <<RESP_ACK, 0, 0, 0, 0, 0, 0, 0, 0, 0>>

\* The values tried at each position of a 10-byte reply.
ByteDomain(i) ==
    CASE i = 1 -> {RESP_ACK, 0}
      [] i = 2 -> {0, 4, 5}
      [] i = 3 -> {0, 1, 2, 3}
      [] i = 4 -> {0, 2, 3}
      [] i \in 5..7 -> {0, 3}
      [] i = 8 -> {0, 5, 6}
      [] OTHER -> {0, 1}

AltValues == UNION {ByteDomain(i) : i \in 1..10}

\* Every 10-byte reply over ByteDomain with any red lamp byte and at most
\* MaxDeviations other positions off the idle acknowledgement.
Replies10 ==
    UNION {
      UNION {
        { LET v(i) == IF i = 3 THEN red ELSE IF i \in D THEN f[i] ELSE IdleReply[i]
          IN  <<v(1), v(2), v(3), v(4), v(5), v(6), v(7), v(8), v(9), v(10)>>
          : red \in ByteDomain(3) }
        : f \in {g \in [D -> AltValues] :
                   \A i \in D : g[i] \in ByteDomain(i) \ {IdleReply[i]}} }
      : D \in {E \in SUBSET ((1..10) \ {3}) : Cardinality(E) <= MaxDeviations} }

\* The idle acknowledgement cut or zero-extended to n bytes.
IdleOfLen(n) == [i \in 1..n |-> IF i <= 10 THEN IdleReply[i] ELSE 0]

\* Byte strings of every length 0..MaxLen, and every reply of Replies10.
ByteStrings == {IdleOfLen(n) : n \in 0..MaxLen} \cup Replies10

\* ------------------------------------------------------------ pure functions

Raise(e) == [kind |-> "raise", exc |-> e]

\* _format_message: the two assertions, then the 10-byte frame.
Frame(write, red_lamp_state) ==
    << IF write THEN CMD_WRITE ELSE CMD_READ,
       0,
       IF write THEN LAMP_ARG_CMD_MAP[red_lamp_state] ELSE 0,
       0, 0, 0, 0, 0, 0, 0 >>

FormatMessage(write, red_lamp_state) ==
    IF ~(write \/ ~Truthy(red_lamp_state))
    THEN [kind |-> "raise", exc |-> "AssertionError", frame |-> <<>>]
    ELSE IF ~(~write \/ red_lamp_state \in {ARG_LAMP_BLINK, ARG_LAMP_OFF, ARG_LAMP_ON})
    THEN [kind |-> "raise", exc |-> "AssertionError", frame |-> <<>>]
    ELSE [kind |-> "ok", exc |-> "none", frame |-> Frame(write, red_lamp_state)]

\* A variant whose length assertion only rejects over-long input.
ResponseLenAtMost10(b) ==
    IF ~(Len(b) = 0 \/ Len(b) <= 10) THEN Raise("AssertionError")
    ELSE IF Len(b) < 10 THEN Raise("IndexError")
    ELSE [kind |-> "ok", exc |-> "none"]

\* Response.__init__: the assertion passes for b'' (not b), and b[0] then
\* raises IndexError; for 10 bytes the fields are views of the buffer.
Response(b) ==
    IF ~(Len(b) = 0 \/ Len(b) = 10) THEN Raise("AssertionError")
    ELSE IF Len(b) = 0 THEN Raise("IndexError")
    ELSE [kind |-> "ok", exc |-> "none"]

is_ack(b) == b[1] = RESP_ACK

sound_group(b) == b[2]

lamp_state_red(b) == b[3]

sound_channel(b) == b[8]

spare_0(b) == b[9]

spare_1(b) == b[10]

\* The four lamp fields before white.
LampStatesNoWhite(b) == <<b[3], b[4], b[5], b[6]>>

\* The list validate walks: red, amber, green, blue, white.
LampStates(b) == <<b[3], b[4], b[5], b[6], b[7]>>

Digits == {"0", "1", "2", "3", "4", "5", "6", "7", "8", "9"}

IntTypes == {"b", "c", "d", "o", "x", "X", "n"}

RECURSIVE SkipDigits(_, _)
SkipDigits(spec, i) ==
    IF i <= Len(spec) /\ spec[i] \in Digits THEN SkipDigits(spec, i + 1) ELSE i

\* int.__format__ on a spec of the shape [0][width][type]: the type letter
\* ends the spec; anything after it is "Invalid format specifier".
IntFormat(spec) ==
    LET w == SkipDigits(spec, 1)
        t == IF w <= Len(spec) /\ spec[w] \in IntTypes THEN w + 1 ELSE w
    IN  IF t = Len(spec) + 1 THEN "ok" ELSE "ValueError"

\* list has no __format__ of its own: object.__format__ accepts only the
\* empty spec.
ListFormat(spec) == IF Len(spec) = 0 THEN "ok" ELSE "TypeError"

Ret(v, d) == [kind |-> "return", exc |-> "none", value |-> v, diag |-> d]

Fail(e) == [kind |-> "raise", exc |-> e, value |-> FALSE, diag |-> <<>>]

\* Response.validate(quiet): value is the boolean returned, diag the
\* diagnostics printed; a diagnostic's f-string is evaluated before print.
Validate(b, quiet) ==
    IF ~is_ack(b)
    THEN IF quiet THEN Ret(FALSE, <<>>)
         ELSE IF IntFormat(<<"X", "0", "2">>) = "ok" THEN Ret(FALSE, <<"not_ack@0">>)
         ELSE Fail(IntFormat(<<"X", "0", "2">>))
    ELSE
    LET sgDiag == sound_group(b) \notin CMD_SOUND_GROUPS /\ ~quiet
        d1 == IF sgDiag THEN <<"sound_group">> ELSE <<>>
        lamps == LampStates(b)
    IN  IF sgDiag /\ ListFormat(<<"0", "2", "X">>) # "ok"
        THEN Fail(ListFormat(<<"0", "2", "X">>))
        ELSE IF \E i \in 1..Len(lamps) :
                   lamps[i] \notin {CMD_LAMP_BLINK, CMD_LAMP_OFF, CMD_LAMP_ON}
        THEN Ret(FALSE, IF quiet THEN d1 ELSE Append(d1, "lamp_state"))
        ELSE IF sound_channel(b) # 0 /\ sound_channel(b) \notin CMD_SOUNDS
        THEN IF quiet THEN Ret(FALSE, d1)
             ELSE IF ListFormat(<<"0", "2", "X">>) = "ok"
             THEN Ret(FALSE, Append(d1, "sound_channel"))
             ELSE Fail(ListFormat(<<"0", "2", "X">>))
        ELSE IF spare_0(b) # 0 \/ spare_1(b) # 0
        THEN Ret(FALSE, IF quiet THEN d1 ELSE Append(d1, "spare"))
        ELSE Ret(TRUE, d1)

\* A check of the ack marker in place of the red lamp byte.
VerifyAckOnly(b, expected_lamp_state) == b[1] = RESP_ACK

\* _verify_lamp_state
VerifyLampState(b, expected_lamp_state) ==
    lamp_state_red(b) = LAMP_ARG_CMD_MAP[expected_lamp_state]

\* -------------------------------------------------------------------- state

VARIABLES
    pc,         \* position of the calling thread
    op,         \* the operation called
    write,      \* _format_message's write argument
    arg,        \* its red_lamp_state argument
    cmd,        \* the frame _format_message returned
    sock,       \* the socket object: "none", "open" or "closed"
    conn,       \* the TCP connection is established
    wire,       \* frames the peer received
    replied,    \* the peer chose its reply
    peerReply,  \* the reply the peer chose
    pending,    \* reply bytes the peer has not yet sent
    rxbuf,      \* bytes in the client's receive buffer
    peerClosed, \* the peer closed its end
    resp,       \* the bytes handed to Response
    exc,        \* the exception that ended the call, or "none"
    robj,       \* a Response object was constructed
    verified,   \* set_lamp's first return value
    trace,      \* socket calls of this call, in order
    out,        \* lines printed
    vquiet,     \* validate's quiet argument
    vres        \* validate's outcome

vars == <<pc, op, write, arg, cmd, sock, conn, wire, replied, peerReply, pending,
          rxbuf, peerClosed, resp, exc, robj, verified, trace, out, vquiet, vres>>

callVars == <<op, write, arg>>

peerVars == <<replied, peerReply, pending, peerClosed>>

validateVars == <<vquiet, vres>>

NoValidate == [kind |-> "none", exc |-> "none", value |-> FALSE, diag |-> <<>>]

TransportErrors == {"ConnectionRefusedError", "TimeoutError", "BrokenPipeError"}

\* Where the caller stands after a socket call raised: nothing in
\* _communicate, set_lamp or read_lamp catches, so the call ends.
OnTransportErrorRetry == "connect"

OnTransportError == "raised"

Init ==
    /\ pc = "idle"
    /\ op = "none"
    /\ write = FALSE
    /\ arg = "None"
    /\ cmd = <<>>
    /\ sock = "none"
    /\ conn = FALSE
    /\ wire = <<>>
    /\ replied = FALSE
    /\ peerReply = <<>>
    /\ pending = <<>>
    /\ rxbuf = <<>>
    /\ peerClosed = FALSE
    /\ resp = <<>>
    /\ exc = "none"
    /\ robj = FALSE
    /\ verified = FALSE
    /\ trace = <<>>
    /\ out = <<>>
    /\ vquiet = FALSE
    /\ vres = NoValidate

\* ------------------------------------------------------------------- calls

\* set_lamp(red_lamp_state); lamp_off, lamp_on and lamp_blink are the three
\* legal instances.
CallSetLamp(s) ==
    /\ pc = "idle"
    /\ op' = "set_lamp" /\ write' = TRUE /\ arg' = s
    /\ pc' = "format"
    /\ UNCHANGED <<cmd, sock, conn, wire, peerVars, rxbuf, resp, exc, robj,
                   verified, trace, out, validateVars>>

\* read_lamp()
CallReadLamp ==
    /\ pc = "idle"
    /\ op' = "read_lamp" /\ write' = FALSE /\ arg' = "None"
    /\ pc' = "format"
    /\ UNCHANGED <<cmd, sock, conn, wire, peerVars, rxbuf, resp, exc, robj,
                   verified, trace, out, validateVars>>

\* _format_message(write, red_lamp_state) called on its own.
CallFormatMessage(w, s) ==
    /\ pc = "idle"
    /\ op' = "format_message" /\ write' = w /\ arg' = s
    /\ pc' = "format"
    /\ UNCHANGED <<cmd, sock, conn, wire, peerVars, rxbuf, resp, exc, robj,
                   verified, trace, out, validateVars>>

\* Response(b) called on its own.
CallResponse(b) ==
    /\ pc = "idle"
    /\ op' = "Response" /\ resp' = b
    /\ pc' = "decode"
    /\ UNCHANGED <<write, arg, cmd, sock, conn, wire, peerVars, rxbuf, exc, robj,
                   verified, trace, out, validateVars>>

\* -------------------------------------------------------------- the client

FormatStep ==
    /\ pc = "format"
    /\ LET m == FormatMessage(write, arg) IN
         /\ cmd' = m.frame
         /\ exc' = IF m.kind = "raise" THEN m.exc ELSE exc
         /\ pc' = IF m.kind = "raise" THEN "raised"
                  ELSE IF op = "format_message" THEN "returned"
                  ELSE "socket"
    /\ UNCHANGED <<callVars, sock, conn, wire, peerVars, rxbuf, resp, robj,
                   verified, trace, out, validateVars>>

\* socket.socket(...); settimeout
SocketCreate ==
    /\ pc = "socket"
    /\ sock' = "open"
    /\ pc' = "connect"
    /\ UNCHANGED <<callVars, cmd, conn, wire, peerVars, rxbuf, resp, exc, robj,
                   verified, trace, out, validateVars>>

ConnectOk ==
    /\ pc = "connect"
    /\ conn' = TRUE
    /\ trace' = Append(trace, "connect")
    /\ pc' = "send"
    /\ UNCHANGED <<callVars, cmd, sock, wire, peerVars, rxbuf, resp, exc, robj,
                   verified, out, validateVars>>

ConnectFail(e) ==
    /\ pc = "connect"
    /\ trace' = Append(trace, "connect")
    /\ exc' = e
    /\ pc' = OnTransportError
    /\ UNCHANGED <<callVars, cmd, sock, conn, wire, peerVars, rxbuf, resp, robj,
                   verified, out, validateVars>>

SendOk ==
    /\ pc = "send"
    /\ wire' = Append(wire, cmd)
    /\ trace' = Append(trace, "send")
    /\ pc' = "recv"
    /\ UNCHANGED <<callVars, cmd, sock, conn, peerVars, rxbuf, resp, exc, robj,
                   verified, out, validateVars>>

SendFail(e) ==
    /\ pc = "send"
    /\ trace' = Append(trace, "send")
    /\ exc' = e
    /\ pc' = OnTransportError
    /\ UNCHANGED <<callVars, cmd, sock, conn, wire, peerVars, rxbuf, resp, robj,
                   verified, out, validateVars>>

\* The bytes the one recv(10) call takes from the buffer.
RecvCount(buf) == Take(buf, RECV_SIZE)

\* recv(10) with data buffered: returns what is there, at most 10 bytes.
RecvData ==
    /\ pc = "recv"
    /\ rxbuf # <<>>
    /\ resp' = RecvCount(rxbuf)
    /\ rxbuf' = Drop(rxbuf, Len(RecvCount(rxbuf)))
    /\ trace' = Append(trace, "recv")
    /\ pc' = "close"
    /\ UNCHANGED <<callVars, cmd, sock, conn, wire, peerVars, exc, robj,
                   verified, out, validateVars>>

\* recv(10) after the peer closed with nothing buffered: b''.
RecvEOF ==
    /\ pc = "recv"
    /\ rxbuf = <<>>
    /\ peerClosed
    /\ resp' = <<>>
    /\ trace' = Append(trace, "recv")
    /\ pc' = "close"
    /\ UNCHANGED <<callVars, cmd, sock, conn, wire, peerVars, rxbuf, exc, robj,
                   verified, out, validateVars>>

\* recv(10) with nothing buffered for the whole timeout.
RecvTimeout ==
    /\ pc = "recv"
    /\ rxbuf = <<>>
    /\ ~peerClosed
    /\ trace' = Append(trace, "recv")
    /\ exc' = "TimeoutError"
    /\ pc' = OnTransportError
    /\ UNCHANGED <<callVars, cmd, sock, conn, wire, peerVars, rxbuf, resp, robj,
                   verified, out, validateVars>>

\* sock.close(), the "No response" line, and the return of _communicate.
Close ==
    /\ pc = "close"
    /\ sock' = "closed"
    /\ conn' = FALSE
    /\ trace' = Append(trace, "close")
    /\ out' = IF resp = <<>> THEN Append(out, "No response from lamp.") ELSE out
    /\ pc' = "decode"
    /\ UNCHANGED <<callVars, cmd, wire, peerVars, rxbuf, resp, exc, robj,
                   verified, validateVars>>

\* Response(resp) and, in set_lamp, _verify_lamp_state.
Decode ==
    /\ pc = "decode"
    /\ LET r == Response(resp) IN
         /\ robj' = (r.kind = "ok")
         /\ exc' = IF r.kind = "raise" THEN r.exc ELSE exc
         /\ pc' = IF r.kind = "raise" THEN "raised" ELSE "returned"
         /\ verified' = IF r.kind = "ok" /\ op = "set_lamp"
                        THEN VerifyLampState(resp, arg) ELSE verified
    /\ UNCHANGED <<callVars, cmd, sock, conn, wire, peerVars, rxbuf, resp,
                   trace, out, validateVars>>

\* validate(quiet) on the Response the call returned.
CallValidate(q) ==
    /\ pc = "returned"
    /\ robj
    /\ vres.kind = "none"
    /\ vquiet' = q
    /\ vres' = Validate(resp, q)
    /\ out' = out \o Validate(resp, q).diag
    /\ UNCHANGED <<pc, callVars, cmd, sock, conn, wire, peerVars, rxbuf, resp, exc,
                   robj, verified, trace>>

\* ----------------------------------------------------------------- the peer

\* The lamp, having read the request, decides what to answer.
PeerReply(r) ==
    /\ conn
    /\ Len(wire) = 1
    /\ ~replied
    /\ replied' = TRUE
    /\ peerReply' = r
    /\ pending' = r
    /\ UNCHANGED <<pc, callVars, cmd, sock, conn, wire, peerClosed, rxbuf, resp, exc,
                   robj, verified, trace, out, validateVars>>

\* One segment of k bytes reaches the client's receive buffer.
PeerDeliver(k) ==
    /\ conn
    /\ ~peerClosed
    /\ k \in 1..Len(pending)
    /\ rxbuf' = rxbuf \o Take(pending, k)
    /\ pending' = Drop(pending, k)
    /\ UNCHANGED <<pc, callVars, cmd, sock, conn, wire, replied, peerReply, peerClosed,
                   resp, exc, robj, verified, trace, out, validateVars>>

\* The lamp closes after everything it meant to send is sent (a close that
\* follows the client's own is not observed by the client).
PeerClose ==
    /\ conn
    /\ replied
    /\ pending = <<>>
    /\ ~peerClosed
    /\ peerClosed' = TRUE
    /\ UNCHANGED <<pc, callVars, cmd, sock, conn, wire, replied, peerReply, pending,
                   rxbuf, resp, exc, robj, verified, trace, out, validateVars>>

Next ==
    \/ \E s \in Args : CallSetLamp(s)
    \/ CallReadLamp
    \/ \E w \in BOOLEAN, s \in Args : CallFormatMessage(w, s)
    \/ \E b \in ByteStrings : CallResponse(b)
    \/ FormatStep
    \/ SocketCreate
    \/ ConnectOk
    \/ \E e \in {"ConnectionRefusedError", "TimeoutError"} : ConnectFail(e)
    \/ SendOk
    \/ \E e \in {"BrokenPipeError", "TimeoutError"} : SendFail(e)
    \/ RecvData
    \/ RecvEOF
    \/ RecvTimeout
    \/ Close
    \/ Decode
    \/ \E q \in BOOLEAN : CallValidate(q)
    \/ \E r \in ByteStrings : PeerReply(r)
    \/ \E k \in 1..MaxLen : PeerDeliver(k)
    \/ PeerClose

Spec == Init /\ [][Next]_vars

\* ------------------------------------------------------------------ claims

Ended == pc \in {"returned", "raised"}

\* The exchange ran to its end: connect, send, recv, close.
ExchangeDone == Len(trace) = 4

\* Response(resp) was evaluated.
DecodeAttempted == Ended /\ (op = "Response" \/ ExchangeDone)

ValidateCalled == vres.kind # "none"

\* The wire code of a requested state, as the protocol table gives it.
StateCode(s) == CASE s = "off" -> 0 [] s = "on" -> 1 [] s = "blink" -> 2 [] OTHER -> 255

\* The reply layout's constraints, sound group aside.
InvariantSaveSoundGroup(b) ==
    /\ b[1] = 65
    /\ \A i \in 3..7 : b[i] \in {0, 1, 2}
    /\ b[8] = 0 \/ b[8] \in 1..5
    /\ b[9] = 0 /\ b[10] = 0

\* All of the reply layout's constraints.
ValidityInvariant(b) == InvariantSaveSoundGroup(b) /\ b[2] \in 0..4

IsPrefix(s, t) == Len(s) <= Len(t) /\ SubSeq(t, 1, Len(s)) = s

\* C1: when a call of set_lamp or read_lamp has ended, by return or by any
\* exception, the socket it opened is closed.
C1_SocketClosedOnEveryExit == Ended => sock # "open"

\* C2: when the bytes to decode are empty (the peer closed without
\* answering), constructing the Response, directly or inside read_lamp or
\* set_lamp, ends without an exception.
C2_EmptyReplyNeverCrashes ==
    (DecodeAttempted /\ resp = <<>>) => (pc = "returned" /\ exc = "none")

\* C3: set_lamp(s) on a 10-byte reply returns verified = TRUE exactly when
\* the reply's red byte is the code of s; and on a reply that satisfies the
\* whole validity invariant but echoes another red state, verified is FALSE
\* while validate returns TRUE.
C3_VerifiedIffRedEcho ==
    (pc = "returned" /\ op = "set_lamp") =>
        /\ Len(resp) = 10
        /\ verified <=> (resp[3] = StateCode(arg))
        /\ (ValidateCalled /\ ValidityInvariant(resp) /\ resp[3] # StateCode(arg)) =>
               (~verified /\ vres.kind = "return" /\ vres.value)

\* C3 witness: set_lamp returned unverified on a reply validate accepts.
C3_Witness ==
    /\ pc = "returned" /\ op = "set_lamp"
    /\ ~verified /\ vres.kind = "return" /\ vres.value
    /\ resp[3] # StateCode(arg)

\* C4 as stated: whenever validate returns TRUE the whole validity invariant
\* holds, the sound group's range included.
C4_ValidImpliesFullInvariant ==
    (vres.kind = "return" /\ vres.value) => ValidityInvariant(resp)

\* C4 as amended: whenever validate returns TRUE, byte 0 is the ack, the five
\* lamp bytes are in {0,1,2}, the sound channel is 0 or in 1..5 and both
\* spare bytes are 0; the sound group is not constrained.
C4_ValidImpliesInvariantSaveSoundGroup ==
    (vres.kind = "return" /\ vres.value) => InvariantSaveSoundGroup(resp)

\* C4 witness: validate returned TRUE on an ack whose sound group is illegal.
C4_Witness ==
    vres.kind = "return" /\ vres.value /\ resp[2] \notin 0..4

\* C5: validate (diagnostics on, the default) on a reply whose byte 0 is not
\* 0x41 returns FALSE and prints the diagnostic naming byte 0.
C5_NotAckReturnsFalseWithDiagnostic ==
    (ValidateCalled /\ ~vquiet /\ resp[1] # 65) =>
        /\ vres.kind = "return"
        /\ vres.value = FALSE
        /\ \E i \in 1..Len(vres.diag) : vres.diag[i] = "not_ack@0"

\* C6: validate (diagnostics on) on an ack whose sound group is outside 0..4
\* prints the advisory, goes on, and returns what it returns for the same
\* reply with sound group 0.
C6_SoundGroupNonFatal ==
    (ValidateCalled /\ ~vquiet /\ resp[1] = 65 /\ resp[2] \notin 0..4) =>
        /\ vres.kind = "return"
        /\ \E i \in 1..Len(vres.diag) : vres.diag[i] = "sound_group"
        /\ vres.value = Validate([resp EXCEPT ![2] = 0], TRUE).value

\* C7: _format_message(False, s) raises for every s other than None, and
\* _format_message(True, s) raises for every s outside off/on/blink; a
\* set_lamp so refused has opened no socket and sent no frame.
C7_EncoderRejectsEveryViolation ==
    /\ (Ended /\ op = "format_message" /\ ~write /\ arg # "None") =>
          (pc = "raised" /\ exc = "AssertionError")
    /\ (Ended /\ op \in {"format_message", "set_lamp"} /\ write
               /\ arg \notin {"off", "on", "blink"}) =>
          (pc = "raised" /\ exc = "AssertionError"
             /\ sock = "none" /\ trace = <<>> /\ wire = <<>>)

\* C8: Response on a non-empty byte string whose length is not 10 raises the
\* length assertion and constructs no object; so read_lamp and set_lamp end
\* with that exception when the exchange yields 1..9 bytes.
C8_WrongLengthIsMalformed ==
    (DecodeAttempted /\ Len(resp) \notin {0, 10}) =>
        (pc = "raised" /\ exc = "AssertionError" /\ ~robj)

\* C8 witness: read_lamp or set_lamp ended on a partial reply.
C8_Witness ==
    /\ op \in {"read_lamp", "set_lamp"} /\ ExchangeDone
    /\ Len(resp) \in 1..9
    /\ pc = "raised"

\* C9: when the peer chose a 10-byte reply and sent all of it, the exchange
\* returned 10 bytes.
C9_FullReplyIsReadInFull ==
    (ExchangeDone /\ Len(peerReply) = 10 /\ pending = <<>>) =>
        Len(resp) = 10

\* C10: the socket calls of one set_lamp or read_lamp are a prefix of connect,
\* send, recv, close (each at most once, in that order), at most one frame
\* reaches the peer, and a transport exception ends the call.
C10_SingleExchangeNoRetry ==
    /\ IsPrefix(trace, <<"connect", "send", "recv", "close">>)
    /\ Len(wire) <= 1
    /\ exc \in TransportErrors => pc = "raised"

\* C10 witness: a refused connect ended the call after the one attempt.
C10_Witness ==
    /\ pc = "raised" /\ exc = "ConnectionRefusedError"
    /\ trace = <<"connect">> /\ wire = <<>>

=============================================================================
